---- MODULE Spec2Model ----
(***************************************************************************)
(* MemoryTracker of dainlp/utils/resources.py: one caller thread driving   *)
(* start / stop / update_metrics / stop_and_update_metrics, the daemon     *)
(* sampler threads running peak_monitor_function, and the process memory   *)
(* (resident set size, accelerator allocated / max allocated) they read.   *)
(***************************************************************************)
EXTENDS Integers, Sequences, FiniteSets, TLC

\* ---------------------------------------------------------------- bounds
MaxCalls == 3          \* tracker calls made by the caller
MaxStarts == 2         \* sampler threads the caller's start() calls launch
MaxRss == 1            \* resident memory takes the values 0..MaxRss
MaxGpu == 1            \* accelerator memory takes the values 0..MaxGpu

RssVals == 0..MaxRss
GpuVals == 0..MaxGpu

\* ------------------------------------------------------------- constants
\* Python's None, used as a value of cur_stage and as a dictionary key.
None == "None"

\* MemoryTracker.stages: caller's function name -> stage.
stages ==
    [c \in {"__init__", "train", "evaluate", "predict", "test_MemoryTracker"} |->
        CASE c = "__init__" -> "init"
          [] c = "train" -> "train"
          [] c = "evaluate" -> "eval"
          [] c = "predict" -> "test"
          [] c = "test_MemoryTracker" -> "init"]

\* The stage names a caller passes to stop / update_metrics.
Stages == {"init", "train", "eval", "test"}

\* Call sites: the registered function names and one unregistered one.
Callers == DOMAIN stages \cup {"other"}

\* The two metric kinds update_metrics loops over.
Kinds == {"alloc", "peaked"}

\* The instance attributes created by __init__ on an enabled tracker.
InitAttrs == {"gpu", "cpu", "cur_stage", "init_reported"}

\* The instance attributes created by start().
StartAttrs == {"gpu_memory_used_at_start", "cpu_memory_used_at_start", "peak_monitoring"}

\* ------------------------------------------------------------- helpers
Max(a, b) == IF a >= b THEN a ELSE b

\* An empty dict.
EmptyMap == [x \in {} |-> 0]

\* d[k] = v on a dict.
Put(d, k, v) == [x \in DOMAIN d \cup {k} |-> IF x = k THEN v ELSE d[x]]

\* The mapping the caller passes as metrics: it holds a key of the caller's own.
LossMap == [x \in {<<"loss">>} |-> 1]

\* f"{stage}_memory_{dom}_{k}_delta", kept as its parts.
MetricKey(stage, dom, k) == <<stage, "memory", dom, k, "delta">>

\* "before_init_memory_cpu" / "before_init_memory_gpu", kept as its parts.
BeforeInitKey(dom) == <<"before", "init", "memory", dom>>

VARIABLES
    skip_memory_metrics,        \* self.skip_memory_metrics
    attrs,                      \* names of the instance attributes that exist
    gpu, cpu,                   \* self.gpu, self.cpu: key -> snapshot
    cur_stage,                  \* self.cur_stage
    init_reported,              \* self.init_reported
    peak_monitoring,            \* self.peak_monitoring
    cpu_memory_used_peak,       \* self.cpu_memory_used_peak
    gpu_memory_used_at_start,   \* self.gpu_memory_used_at_start
    cpu_memory_used_at_start,   \* self.cpu_memory_used_at_start
    threads,                    \* the sampler threads launched so far
    rss,                        \* process.memory_info().rss
    metrics,                    \* the caller's metrics mapping
    pc,                         \* the caller's position
    call,                       \* the tracker call in progress, or the last one
    err,                        \* the exception that ended the caller, or "none"
    ncalls,                     \* tracker calls made so far
    updates,                    \* update_metrics bodies entered so far
    written,                    \* keys the last update_metrics wrote
    obs                         \* what the open stage's window saw (history)

tracker == <<skip_memory_metrics, attrs, gpu, cpu, cur_stage, init_reported,
             peak_monitoring, cpu_memory_used_peak, gpu_memory_used_at_start,
             cpu_memory_used_at_start>>
vars == <<tracker, threads, rss, metrics, pc, call, err, ncalls, updates, written, obs>>

\* -------------------------------------------------------------- __init__
NoCall == [name |-> "none", stage |-> None, entry |-> None, metrics |-> FALSE,
           reported |-> FALSE, afterStart |-> FALSE]

NoObs == [rss_begin |-> -1, rss_max |-> -1, rss_end |-> -1,
          gpu_begin |-> -1, gpu_end |-> -1, gpu_max |-> -1]

\* MemoryTracker(skip_memory_metrics): lines 14-22.
Init ==
    /\ skip_memory_metrics \in BOOLEAN
    /\ attrs = IF skip_memory_metrics THEN {} ELSE InitAttrs
    /\ gpu = EmptyMap
    /\ cpu = EmptyMap
    /\ cur_stage = None
    /\ init_reported = FALSE
    /\ peak_monitoring = FALSE
    /\ cpu_memory_used_peak = -1
    /\ gpu_memory_used_at_start = 0
    /\ cpu_memory_used_at_start = 0
    /\ threads = <<>>
    /\ rss \in RssVals
    /\ metrics = LossMap
    /\ pc = "idle"
    /\ call = NoCall
    /\ err = "none"
    /\ ncalls = 0
    /\ updates = 0
    /\ written = {}
    /\ obs = NoObs

\* The caller is between two tracker calls and may make another one.
CanCall == pc = "idle" /\ err = "none" /\ ncalls < MaxCalls

\* The previous call was a start() that opened a stage on an idle tracker.
OpenedByLast ==
    /\ call.name = "start"
    /\ call.entry = None
    /\ cur_stage # None

NewCall(name, stage, withMetrics) ==
    [name |-> name, stage |-> stage,
     entry |-> IF "cur_stage" \in attrs THEN cur_stage ELSE "unset",
     metrics |-> withMetrics,
     reported |-> init_reported,
     afterStart |-> OpenedByLast]

\* ------------------------------------------------------------ the sampler
\* A sampler thread: where it stands in peak_monitor_function and the value
\* of max(...) it has computed and not yet stored.
NewThread == [pc |-> "l33", tmp |-> -1]

\* Line 33: self.cpu_memory_used_peak = -1.
SamplerInit(i) ==
    /\ err = "none"
    /\ threads[i].pc = "l33"
    /\ cpu_memory_used_peak' = -1
    /\ attrs' = attrs \cup {"cpu_memory_used_peak"}
    /\ threads' = [threads EXCEPT ![i].pc = "l36r"]
    /\ UNCHANGED <<skip_memory_metrics, gpu, cpu, cur_stage, init_reported, peak_monitoring,
                   gpu_memory_used_at_start, cpu_memory_used_at_start,
                   rss, metrics, pc, call, err, ncalls, updates, written, obs>>

\* Line 36, right-hand side: max(self.cpu_mem_used(), self.cpu_memory_used_peak).
SamplerRead(i) ==
    /\ err = "none"
    /\ threads[i].pc = "l36r"
    /\ threads' = [threads EXCEPT ![i] = [pc |-> "l36w", tmp |-> Max(rss, cpu_memory_used_peak)]]
    /\ UNCHANGED <<tracker, rss, metrics, pc, call, err, ncalls, updates, written, obs>>

\* Line 36, the store into self.cpu_memory_used_peak.
SamplerWrite(i) ==
    /\ err = "none"
    /\ threads[i].pc = "l36w"
    /\ cpu_memory_used_peak' = threads[i].tmp
    /\ threads' = [threads EXCEPT ![i] = [pc |-> "l41", tmp |-> -1]]
    /\ UNCHANGED <<skip_memory_metrics, attrs, gpu, cpu, cur_stage, init_reported, peak_monitoring,
                   gpu_memory_used_at_start, cpu_memory_used_at_start,
                   rss, metrics, pc, call, err, ncalls, updates, written, obs>>

\* Lines 41-42: if not self.peak_monitoring: break.
SamplerCheck(i) ==
    /\ err = "none"
    /\ threads[i].pc = "l41"
    /\ threads' = [threads EXCEPT ![i].pc = IF peak_monitoring THEN "l36r" ELSE "done"]
    /\ UNCHANGED <<tracker, rss, metrics, pc, call, err, ncalls, updates, written, obs>>

\* ------------------------------------------------------- the process memory
\* The window of the open stage: from start()'s reads to the end of stop().
WindowOpen == "cur_stage" \in attrs /\ cur_stage # None

\* The process's resident memory changes (the measured work, the collector).
RssChange(v) ==
    /\ err = "none"
    /\ v # rss
    /\ rss' = v
    /\ obs' = IF WindowOpen THEN [obs EXCEPT !.rss_max = Max(@, v)] ELSE obs
    /\ UNCHANGED <<tracker, threads, metrics, pc, call, err, ncalls, updates, written>>

\* ------------------------------------------------------------ the tracker
\* derive_stage, line 26: assert caller in self.stages.
Registered(c) == c \in DOMAIN stages

\* derive_stage returning the caller's name in place of the table's value.
derive_stage_as_caller(c) == c

\* derive_stage, line 27: return self.stages[caller].
derive_stage(c) == stages[c]

\* The gate of start / stop / update_metrics (lines 48, 63, 81):
\* self.cur_stage is not None and self.cur_stage != stage.
Gated(stage) == cur_stage # None /\ cur_stage # stage

\* start() without its gate.
StartNeverGated(stage) == FALSE

\* start(), line 48.
StartGated(stage) == Gated(stage)

\* stop() without its gate.
StopNeverGated(stage) == FALSE

\* stop(), line 63.
StopGated(stage) == Gated(stage)

\* update_metrics(), line 81.
UpdateGated(stage) == Gated(stage)

\* dict(begin=..., end=..., alloc=end - begin, peaked=max(0, peak - end)): lines 70-76.
Snapshot(begin, end, peak) ==
    [begin |-> begin, end |-> end, alloc |-> end - begin, peaked |-> Max(0, peak - end)]

\* The call raises e: nothing in the repository catches it, the caller ends.
Raise(e) ==
    /\ err' = e
    /\ pc' = "idle"

\* start() from call site c: lines 44-60. g is what torch.cuda.memory_allocated()
\* returns at line 54.
Start(c, g) ==
    /\ CanCall
    /\ Len(threads) < MaxStarts
    /\ ncalls' = ncalls + 1
    /\ call' = NewCall("start", IF Registered(c) THEN derive_stage(c) ELSE "unregistered", FALSE)
    /\ written' = {}
    /\ UNCHANGED <<skip_memory_metrics, gpu, cpu, init_reported, cpu_memory_used_peak,
                   rss, metrics, updates>>
    /\ IF skip_memory_metrics
       THEN UNCHANGED <<attrs, cur_stage, peak_monitoring, gpu_memory_used_at_start,
                        cpu_memory_used_at_start, threads, pc, err, obs>>
       ELSE IF ~Registered(c)
       THEN /\ Raise("AssertionError")
            /\ UNCHANGED <<attrs, cur_stage, peak_monitoring, gpu_memory_used_at_start,
                           cpu_memory_used_at_start, threads, obs>>
       ELSE IF StartGated(derive_stage(c))
       THEN UNCHANGED <<attrs, cur_stage, peak_monitoring, gpu_memory_used_at_start,
                        cpu_memory_used_at_start, threads, pc, err, obs>>
       ELSE /\ cur_stage' = derive_stage(c)
            /\ gpu_memory_used_at_start' = g
            /\ cpu_memory_used_at_start' = rss
            /\ peak_monitoring' = TRUE
            /\ attrs' = attrs \cup StartAttrs
            /\ threads' = Append(threads, NewThread)
            /\ obs' = [rss_begin |-> rss, rss_max |-> rss, rss_end |-> -1,
                       gpu_begin |-> g, gpu_end |-> -1, gpu_max |-> -1]
            /\ UNCHANGED <<pc, err>>

\* stop(stage), lines 63-72, entered by stop() or by stop_and_update_metrics():
\* the gate, the flag, the accelerator snapshot; `next` is where the caller goes
\* when the gate returns. g is what torch.cuda.memory_allocated() returns at line
\* 68 and m what torch.cuda.max_memory_allocated() returns at line 69.
StopHead(stage, next, g, m) ==
    IF "cur_stage" \notin attrs
    THEN /\ Raise("AttributeError")
         /\ UNCHANGED <<attrs, peak_monitoring, gpu, obs>>
    ELSE IF StopGated(stage)
    THEN /\ pc' = next
         /\ UNCHANGED <<attrs, peak_monitoring, gpu, obs, err>>
    ELSE /\ peak_monitoring' = FALSE
         /\ attrs' = attrs \cup {"peak_monitoring"}
         /\ IF "gpu_memory_used_at_start" \notin attrs
            THEN /\ Raise("AttributeError")
                 /\ UNCHANGED <<gpu, obs>>
            ELSE /\ gpu' = Put(gpu, cur_stage,
                               Snapshot(gpu_memory_used_at_start, g, m))
                 /\ obs' = [obs EXCEPT !.gpu_end = g, !.gpu_max = m]
                 /\ pc' = "stop_cpu"
                 /\ UNCHANGED err

\* stop(stage): the call and lines 63-72.
Stop(stage, g, m) ==
    /\ CanCall
    /\ ncalls' = ncalls + 1
    /\ call' = NewCall("stop", stage, FALSE)
    /\ StopHead(stage, "idle", g, m)
    /\ written' = {}
    /\ UNCHANGED <<skip_memory_metrics, cpu, cur_stage, init_reported, cpu_memory_used_peak,
                   gpu_memory_used_at_start, cpu_memory_used_at_start, threads, rss,
                   metrics, updates>>

\* stop, lines 73-77: the CPU snapshot, then self.cur_stage = None.
StopCpu ==
    /\ pc = "stop_cpu" /\ err = "none"
    /\ IF "cpu_memory_used_peak" \notin attrs
       THEN /\ Raise("AttributeError")
            /\ UNCHANGED <<cpu, cur_stage, obs>>
       ELSE /\ cpu' = Put(cpu, cur_stage,
                          Snapshot(cpu_memory_used_at_start, rss, cpu_memory_used_peak))
            /\ cur_stage' = None
            /\ obs' = [obs EXCEPT !.rss_end = rss]
            /\ pc' = IF call.name = "stop_and_update_metrics" /\ call.metrics
                     THEN "update" ELSE "idle"
            /\ UNCHANGED err
    /\ UNCHANGED <<skip_memory_metrics, attrs, gpu, init_reported, peak_monitoring,
                   cpu_memory_used_peak, gpu_memory_used_at_start, cpu_memory_used_at_start,
                   threads, rss, metrics, call, ncalls, updates, written>>

\* update_metrics emitting "init" on every call.
StagesAlwaysWithInit(stage) == <<"init", stage>>

\* update_metrics, lines 83-86: the stages to emit.
StagesToEmit(stage) == IF ~init_reported THEN <<"init", stage>> ELSE <<stage>>

\* update_metrics, lines 88-93: the delta keys written for the stages to emit.
DeltaKeys(sts) ==
    {MetricKey(sts[i], "cpu", k) : i \in {j \in DOMAIN sts : sts[j] \in DOMAIN cpu}, k \in Kinds}
    \cup
    {MetricKey(sts[i], "gpu", k) : i \in {j \in DOMAIN sts : sts[j] \in DOMAIN gpu}, k \in Kinds}

\* The value stored under a key: the snapshots' figures, lines 91, 93, 96, 97.
KeyValue(key) ==
    IF key = BeforeInitKey("cpu") THEN cpu["init"]["begin"]
    ELSE IF key = BeforeInitKey("gpu") THEN gpu["init"]["begin"]
    ELSE IF key[3] = "cpu" THEN cpu[key[1]][key[4]]
    ELSE gpu[key[1]][key[4]]

\* update_metrics, lines 95-97: the before_init keys written before the call
\* returns or a missing "init" snapshot raises KeyError.
BeforeKeys(sts) ==
    IF sts[1] # "init" THEN {}
    ELSE IF "init" \notin DOMAIN cpu THEN {}
    ELSE IF "init" \notin DOMAIN gpu THEN {BeforeInitKey("cpu")}
    ELSE {BeforeInitKey("cpu"), BeforeInitKey("gpu")}

\* update_metrics, lines 96-97: a subscript of a missing key raises KeyError.
UpdateFails(sts) ==
    sts[1] = "init" /\ ("init" \notin DOMAIN cpu \/ "init" \notin DOMAIN gpu)

\* metrics[k] = ... for every key of keys.
WriteKeys(m, keys) == [x \in DOMAIN m \cup keys |-> IF x \in keys THEN KeyValue(x) ELSE m[x]]

\* update_metrics(stage, metrics) behind its skip test: lines 81-97.
UpdateBody(stage) ==
    /\ updates' = updates + 1
    /\ IF UpdateGated(stage)
       THEN /\ written' = {}
            /\ pc' = "idle"
            /\ UNCHANGED <<init_reported, metrics, err>>
       ELSE LET sts == StagesToEmit(stage)
                keys == DeltaKeys(sts) \cup BeforeKeys(sts)
            IN /\ init_reported' = TRUE
               /\ metrics' = WriteKeys(metrics, keys)
               /\ written' = keys
               /\ IF UpdateFails(sts) THEN Raise("KeyError")
                  ELSE pc' = "idle" /\ UNCHANGED err

\* update_metrics(stage, metrics): lines 79-97.
UpdateMetrics(stage) ==
    /\ CanCall
    /\ ncalls' = ncalls + 1
    /\ call' = NewCall("update_metrics", stage, TRUE)
    /\ IF skip_memory_metrics
       THEN written' = {} /\ UNCHANGED <<init_reported, metrics, err, pc, updates>>
       ELSE UpdateBody(stage)
    /\ UNCHANGED <<skip_memory_metrics, attrs, gpu, cpu, cur_stage, peak_monitoring,
                   cpu_memory_used_peak, gpu_memory_used_at_start, cpu_memory_used_at_start,
                   threads, rss, obs>>

\* stop_and_update_metrics(metrics) from call site c: lines 100-102, into stop().
StopAndUpdateMetrics(c, withMetrics, g, m) ==
    /\ CanCall
    /\ ncalls' = ncalls + 1
    /\ call' = NewCall("stop_and_update_metrics",
                       IF Registered(c) THEN derive_stage(c) ELSE "unregistered", withMetrics)
    /\ IF skip_memory_metrics
       THEN UNCHANGED <<attrs, peak_monitoring, gpu, obs, pc, err>>
       ELSE IF ~Registered(c)
       THEN /\ Raise("AssertionError")
            /\ UNCHANGED <<attrs, peak_monitoring, gpu, obs>>
       ELSE StopHead(derive_stage(c), IF withMetrics THEN "update" ELSE "idle", g, m)
    /\ written' = {}
    /\ UNCHANGED <<skip_memory_metrics, cpu, cur_stage, init_reported, cpu_memory_used_peak,
                   gpu_memory_used_at_start, cpu_memory_used_at_start, threads, rss,
                   metrics, updates>>

\* stop_and_update_metrics passing "init" to update_metrics whatever the stage.
StopAndUpdateTailForInit ==
    /\ pc = "update" /\ err = "none"
    /\ UpdateBody("init")
    /\ UNCHANGED <<skip_memory_metrics, attrs, gpu, cpu, cur_stage, peak_monitoring,
                   cpu_memory_used_peak, gpu_memory_used_at_start, cpu_memory_used_at_start,
                   threads, rss, call, ncalls, obs>>

\* stop_and_update_metrics, lines 103-104: self.update_metrics(stage, metrics).
StopAndUpdateTail ==
    /\ pc = "update" /\ err = "none"
    /\ UpdateBody(call.stage)
    /\ UNCHANGED <<skip_memory_metrics, attrs, gpu, cpu, cur_stage, peak_monitoring,
                   cpu_memory_used_peak, gpu_memory_used_at_start, cpu_memory_used_at_start,
                   threads, rss, call, ncalls, obs>>

\* ------------------------------------------------------------ the system
\* What stop() can read from the accelerator: the allocated bytes and the maximum
\* allocated since start() reset the statistics, which is no less than the
\* allocated bytes now or at the reset.
GpuReadings ==
    {r \in GpuVals \X GpuVals :
        /\ r[2] >= r[1]
        /\ "gpu_memory_used_at_start" \in attrs => r[2] >= gpu_memory_used_at_start}

Next ==
    \/ \E c \in Callers, g \in GpuVals : Start(c, g)
    \/ \E s \in Stages, r \in GpuReadings : Stop(s, r[1], r[2])
    \/ StopCpu
    \/ \E s \in Stages : UpdateMetrics(s)
    \/ \E c \in Callers, w \in BOOLEAN, r \in GpuReadings :
          StopAndUpdateMetrics(c, w, r[1], r[2])
    \/ StopAndUpdateTail
    \/ \E i \in DOMAIN threads : SamplerInit(i)
    \/ \E i \in DOMAIN threads : SamplerRead(i)
    \/ \E i \in DOMAIN threads : SamplerWrite(i)
    \/ \E i \in DOMAIN threads : SamplerCheck(i)
    \/ \E v \in RssVals : RssChange(v)

Spec == Init /\ [][Next]_vars

\* The same tracker, sampler and caller while the process's memory holds steady:
\* the resident memory does not change and the accelerator reads what it read
\* at the first start(). No branch of the code reads a memory value.
SteadyGpu == IF "gpu_memory_used_at_start" \in attrs THEN {gpu_memory_used_at_start} ELSE GpuVals

NextSteady ==
    \/ \E c \in Callers, g \in SteadyGpu : Start(c, g)
    \/ \E s \in Stages, g \in SteadyGpu : Stop(s, g, g)
    \/ StopCpu
    \/ \E s \in Stages : UpdateMetrics(s)
    \/ \E c \in Callers, w \in BOOLEAN, g \in SteadyGpu : StopAndUpdateMetrics(c, w, g, g)
    \/ StopAndUpdateTail
    \/ \E i \in DOMAIN threads : SamplerInit(i)
    \/ \E i \in DOMAIN threads : SamplerRead(i)
    \/ \E i \in DOMAIN threads : SamplerWrite(i)
    \/ \E i \in DOMAIN threads : SamplerCheck(i)

SpecSteady == Init /\ [][NextSteady]_vars

\* One step of sampler thread i, wherever it stands in peak_monitor_function.
SamplerStep(i) ==
    /\ i \in DOMAIN threads
    /\ (SamplerInit(i) \/ SamplerRead(i) \/ SamplerWrite(i) \/ SamplerCheck(i))

\* The scheduler runs every live sampler thread again and again: the loop of
\* lines 35-42 never blocks, so a thread that can step does step.
SamplerFairness == \A i \in 1..MaxStarts : WF_vars(SamplerStep(i))

\* The tracker under steady memory with fairly scheduled sampler threads. The
\* caller is under no obligation to make another call.
SpecFair == Init /\ [][NextSteady]_vars /\ SamplerFairness

\* ------------------------------------------------------------ the claims
\* The call in `call` has ended: it returned or it raised.
CallEnded == pc = "idle"

\* The step that makes a tracker call.
CallStep == ncalls' = ncalls + 1

\* The keys update_metrics writes for one stage.
StageKeys(stage) == {MetricKey(stage, dom, k) : dom \in {"cpu", "gpu"}, k \in Kinds}

\* The two before_init keys.
BeforeInitKeys == {BeforeInitKey("cpu"), BeforeInitKey("gpu")}

\* C1: on a tracker with no stage open, start() resolving to s followed by
\* stop(s), with no other tracker call in between, stores per_stage_cpu[s] with
\* begin = the resident memory read by that start(), end = the resident memory
\* read by that stop() and alloc = end - begin, and per_stage_gpu[s] likewise from
\* the accelerator's allocated bytes.
C1_StartStopStoresSnapshot ==
    (call.name = "stop" /\ call.afterStart /\ call.stage = call.entry /\ CallEnded) =>
        /\ err = "none"
        /\ call.stage \in DOMAIN cpu
        /\ cpu[call.stage].begin = obs.rss_begin
        /\ cpu[call.stage].end = obs.rss_end
        /\ cpu[call.stage].alloc = obs.rss_end - obs.rss_begin
        /\ call.stage \in DOMAIN gpu
        /\ gpu[call.stage].begin = obs.gpu_begin
        /\ gpu[call.stage].end = obs.gpu_end
        /\ gpu[call.stage].alloc = obs.gpu_end - obs.gpu_begin

\* C2: for every interleaving of the caller with the sampler, after start()
\* resolving to s and then stop(s), per_stage_cpu[s].peaked is max(0, P - end),
\* P being the largest resident memory the process had between that start() and
\* that stop() and end the value stop() read.
C2_PeakedIsWindowPeak ==
    (call.name = "stop" /\ call.stage = call.entry /\ CallEnded /\ err = "none") =>
        /\ call.stage \in DOMAIN cpu
        /\ cpu[call.stage].peaked = Max(0, obs.rss_max - obs.rss_end)

\* C3: stop(s2) while a stage s1 # s2 is open changes nothing: per_stage_cpu and
\* per_stage_gpu are unchanged, s1 remains the open stage and the sampling flag
\* stays true.
C3_MismatchedStopNoop ==
    [][(/\ CallStep
        /\ call'.name = "stop"
        /\ ~skip_memory_metrics
        /\ cur_stage # None
        /\ call'.stage # cur_stage)
       => (/\ cpu' = cpu
           /\ gpu' = gpu
           /\ cur_stage' = cur_stage
           /\ peak_monitoring
           /\ peak_monitoring'
           /\ pc' = "idle"
           /\ err' = "none")]_vars

\* C3, its case: a stop(s2) has returned while s1 # s2 stays open.
C3_Witness ==
    /\ call.name = "stop"
    /\ CallEnded
    /\ call.entry \in Stages
    /\ call.stage # call.entry
    /\ cur_stage = call.entry
    /\ peak_monitoring

\* C4: start() from a call site resolving to s2 while a stage s1 # s2 is open is a
\* no-op: cur_stage stays s1, the begin values taken for s1 are not overwritten
\* and no further sampler is launched.
C4_MismatchedStartNoop ==
    [][(/\ CallStep
        /\ call'.name = "start"
        /\ ~skip_memory_metrics
        /\ cur_stage # None
        /\ call'.stage \in Stages
        /\ call'.stage # cur_stage)
       => (/\ cur_stage' = cur_stage
           /\ gpu_memory_used_at_start' = gpu_memory_used_at_start
           /\ cpu_memory_used_at_start' = cpu_memory_used_at_start
           /\ threads' = threads
           /\ pc' = "idle"
           /\ err' = "none")]_vars

\* C4, its case: a start() resolving to s2 has returned while s1 # s2 stays open
\* with its one sampler.
C4_Witness ==
    /\ call.name = "start"
    /\ CallEnded
    /\ call.entry \in Stages
    /\ call.stage \in Stages
    /\ call.stage # call.entry
    /\ cur_stage = call.entry
    /\ Len(threads) = 1

\* C5: a second start() in a row from a call site resolving to the open stage s
\* leaves the tracker as the first one left it: the recorded begin values are not
\* changed and no second sampler is launched.
C5_SecondStartIdempotent ==
    [][(/\ CallStep
        /\ call'.name = "start"
        /\ call.name = "start"
        /\ ~skip_memory_metrics
        /\ cur_stage # None
        /\ call'.stage = cur_stage)
       => (/\ gpu_memory_used_at_start' = gpu_memory_used_at_start
           /\ cpu_memory_used_at_start' = cpu_memory_used_at_start
           /\ threads' = threads)]_vars

\* C6: stop(s) while no stage is open is a no-op: no snapshot is written to
\* per_stage_cpu or per_stage_gpu under any key and the tracker stays idle.
C6_StopWhenIdleNoop ==
    [][(\/ (CallStep /\ call'.name = "stop" /\ call'.entry = None)
        \/ (~CallStep /\ call.name = "stop" /\ call.entry = None))
       => (/\ cpu' = cpu
           /\ gpu' = gpu
           /\ cur_stage' = None
           /\ err' = "none")]_vars

\* C7: the first update_metrics(s, metrics) call on a tracker writes
\* before_init_memory_cpu, before_init_memory_gpu and the init_memory_*_delta
\* keys into metrics, whatever start/stop calls came before.
C7_FirstUpdateWritesInitKeys ==
    (call.name = "update_metrics" /\ updates = 1 /\ CallEnded) =>
        /\ err = "none"
        /\ BeforeInitKeys \subseteq written
        /\ StageKeys("init") \subseteq written

\* C8 as stated: every update_metrics(s, metrics) call after the first one writes
\* no init-prefixed key and neither before_init key, for every stage s.
C8_LaterUpdatesWriteNoInitKeys ==
    (call.name = "update_metrics" /\ updates >= 2 /\ CallEnded) =>
        written \cap (StageKeys("init") \cup BeforeInitKeys) = {}

\* C8, amended: for every stage s other than init, an update_metrics(s, metrics)
\* call made once an earlier update_metrics call has passed the gates
\* (init_reported already true) writes no init-prefixed key and neither
\* before_init key: it writes only keys of s.
C8_ReportedUpdateWritesStageKeysOnly ==
    (/\ call.name \in {"update_metrics", "stop_and_update_metrics"}
     /\ call.reported
     /\ call.stage # "init"
     /\ CallEnded) =>
        /\ written \subseteq StageKeys(call.stage)
        /\ written \cap (StageKeys("init") \cup BeforeInitKeys) = {}

\* C8, its case: after the init keys were reported, an update_metrics call for
\* another stage has passed the gates and returned.
C8_Witness ==
    /\ call.name = "update_metrics"
    /\ call.reported
    /\ call.stage \in Stages \ {"init"}
    /\ call.entry = None
    /\ CallEnded
    /\ err = "none"
    /\ updates = 2
    /\ BeforeInitKeys \subseteq DOMAIN metrics

\* C9: on a tracker constructed with skip_memory_metrics=True each of start(),
\* stop(stage), update_metrics(stage, metrics) and stop_and_update_metrics(metrics)
\* completes as a no-op: no error, metrics unchanged, no tracking state, no sampler.
C9_DisabledTrackerNoop ==
    skip_memory_metrics =>
        /\ err = "none"
        /\ metrics = LossMap
        /\ attrs = {}
        /\ threads = <<>>

\* C10: on an enabled tracker no sequence of calls from registered call sites with
\* stages in {init, train, eval, test} ends in an error: the only failing call is
\* one whose caller is not in the stage table.
C10_OnlyUnregisteredCallerFails ==
    (~skip_memory_metrics /\ err # "none") =>
        /\ err = "AssertionError"
        /\ call.stage = "unregistered"

\* This step is a start() or a stop_and_update_metrics() made from call site c,
\* the accelerator having read what the step recorded.
CallFrom(c) ==
    \/ Start(c, gpu_memory_used_at_start')
    \/ StopAndUpdateMetrics(c, call'.metrics, obs'.gpu_end, obs'.gpu_max)

\* What C11 promises of such a call: from a call site outside the table an
\* assertion error and an untouched tracker, from a call site of the table the
\* table's stage.
C11_Promise(c) ==
    IF c \in {"__init__", "train", "evaluate", "predict", "test_MemoryTracker"}
    THEN call'.stage = CASE c = "__init__" -> "init"
                         [] c = "test_MemoryTracker" -> "init"
                         [] c = "train" -> "train"
                         [] c = "evaluate" -> "eval"
                         [] c = "predict" -> "test"
    ELSE /\ err' = "AssertionError"
         /\ cur_stage' = cur_stage
         /\ peak_monitoring' = peak_monitoring
         /\ cpu' = cpu
         /\ gpu' = gpu
         /\ init_reported' = init_reported
         /\ threads' = threads

\* C11 as stated: start() or stop_and_update_metrics() from a caller outside the
\* five table entries fails with an assertion error and leaves current_stage, the
\* sampling flag, both per-stage mappings and init_reported unchanged, launching
\* no sampler; for a registered caller the resolved stage is the table's value.
C11_UnregisteredCallerAsserts ==
    [][(CallStep /\ call'.name \in {"start", "stop_and_update_metrics"}) =>
          \A c \in Callers : CallFrom(c) => C11_Promise(c)]_vars

\* C11, amended: the same on an enabled tracker (a disabled tracker returns at
\* lines 45 / 100 before the caller is looked up).
C11_EnabledUnregisteredCallerAsserts ==
    [][(~skip_memory_metrics /\ CallStep /\ call'.name \in {"start", "stop_and_update_metrics"}) =>
          \A c \in Callers : CallFrom(c) => C11_Promise(c)]_vars

\* C11, its case: with a stage open and its sampler launched, a call from an
\* unregistered call site has raised the assertion error.
C11_Witness ==
    /\ ~skip_memory_metrics
    /\ call.name \in {"start", "stop_and_update_metrics"}
    /\ call.stage = "unregistered"
    /\ err = "AssertionError"
    /\ call.entry \in Stages
    /\ cur_stage = call.entry
    /\ peak_monitoring
    /\ Len(threads) = 1

\* C12: on a fresh enabled tracker, start() from a call site resolving to init and
\* then stop_and_update_metrics(metrics) from the same call site leave metrics
\* holding before_init_memory_gpu, init_memory_gpu_alloc_delta and
\* init_memory_gpu_peaked_delta; before_init_memory_gpu is the allocated value
\* start() read, and the three add up to the larger of the allocated value stop
\* read and the maximum allocated since start().
C12_InitGpuRequirement ==
    (/\ ~skip_memory_metrics
     /\ call.name = "stop_and_update_metrics"
     /\ call.metrics
     /\ call.stage = "init"
     /\ call.afterStart
     /\ call.entry = "init"
     /\ ncalls = 2
     /\ CallEnded) =>
        /\ err = "none"
        /\ {BeforeInitKey("gpu"), MetricKey("init", "gpu", "alloc"),
            MetricKey("init", "gpu", "peaked")} \subseteq DOMAIN metrics
        /\ metrics[BeforeInitKey("gpu")] = obs.gpu_begin
        /\ metrics[BeforeInitKey("gpu")] + metrics[MetricKey("init", "gpu", "alloc")]
             + metrics[MetricKey("init", "gpu", "peaked")] = Max(obs.gpu_end, obs.gpu_max)

\* C13: every sampler launched by a start() eventually terminates once the
\* stop() that closes its stage has set the sampling flag false, under fair
\* scheduling of the sampler and whatever tracker calls follow (a new start()
\* right after that stop() included). An uncaught exception ends the process
\* and its daemon threads with it.
C13_SamplerTerminates ==
    \A i \in 1..MaxStarts :
        (i \in DOMAIN threads /\ "peak_monitoring" \in attrs /\ ~peak_monitoring)
            ~> (err # "none" \/ (i \in DOMAIN threads /\ threads[i].pc = "done"))

\* The sampler threads whose loop has not ended.
Running == {i \in DOMAIN threads : threads[i].pc # "done"}

\* C14: in every reachable state, while a stage is open at most one sampler loop
\* is still running (the one launched for that stage): a sampler of an earlier
\* stage never runs beside the sampler of a later one.
C14_OneSamplerPerOpenStage ==
    WindowOpen => Cardinality(Running) <= 1

\* The step in which stop() reads self.cpu_memory_used_peak at line 76 and gets
\* a value.
ReadsPeak == pc = "stop_cpu" /\ pc' # "stop_cpu" /\ err' = "none"

\* C15: whenever stop(s) reads the sampler's running maximum for the CPU snapshot
\* of s, the sampler loop launched for s (the latest thread) has already stopped,
\* so that no write to the running maximum follows the read.
C15_PeakReadAfterSamplerStopped ==
    [][ReadsPeak => (threads = <<>> \/ threads[Len(threads)].pc = "done")]_vars

\* The step that runs the body of update_metrics (lines 81-97), called directly
\* or from stop_and_update_metrics.
UpdateStep == updates' = updates + 1

\* C16: init_reported starts false, becomes true at the first update_metrics call
\* that passes the disabled and stage-mismatch gates and completes successfully,
\* and never changes again: it is never reset to false, and an update_metrics
\* call that is gated off or that fails does not set it.
C16_InitReportedOnFirstSuccess ==
    [][/\ (updates = 0 => ~init_reported)
       /\ (init_reported => init_reported')
       /\ ((~init_reported /\ init_reported') =>
              (UpdateStep /\ ~UpdateGated(call'.stage) /\ err' = "none"))
       /\ ((UpdateStep /\ ~UpdateGated(call'.stage) /\ err' = "none") => init_reported')]_vars

\* This step wrote d[s]: the key is new or its snapshot differs.
Wrote(d, e, s) == s \in DOMAIN e /\ (s \notin DOMAIN d \/ e[s] # d[s])

\* This step belongs to a stop call that closes the open stage s.
ClosingStop(s) ==
    /\ call'.name \in {"stop", "stop_and_update_metrics"}
    /\ s \in Stages
    /\ cur_stage = s
    /\ call'.stage = s

\* C17: per_stage_cpu[s] and per_stage_gpu[s] change only in a stop call that
\* closes the open stage s (start(), update_metrics() and a gated-off stop modify
\* neither mapping), every key of both mappings is one of init, train, eval,
\* test, and a snapshot written on re-entry holds the new cycle's begin, end and
\* alloc = end - begin and nothing else than the four fields.
C17_SnapshotsOnlyByClosingStop ==
    [][/\ DOMAIN cpu' \subseteq Stages
       /\ DOMAIN gpu' \subseteq Stages
       /\ DOMAIN cpu \subseteq DOMAIN cpu'
       /\ DOMAIN gpu \subseteq DOMAIN gpu'
       /\ \A s \in DOMAIN gpu' :
             Wrote(gpu, gpu', s) =>
                /\ ClosingStop(s)
                /\ gpu'[s] = [begin |-> obs.gpu_begin, end |-> obs'.gpu_end,
                              alloc |-> obs'.gpu_end - obs.gpu_begin,
                              peaked |-> Max(0, obs'.gpu_max - obs'.gpu_end)]
       /\ \A s \in DOMAIN cpu' :
             Wrote(cpu, cpu', s) =>
                /\ ClosingStop(s)
                /\ DOMAIN cpu'[s] = {"begin", "end", "alloc", "peaked"}
                /\ cpu'[s].begin = obs.rss_begin
                /\ cpu'[s].end = obs'.rss_end
                /\ cpu'[s].alloc = obs'.rss_end - obs.rss_begin]_vars

\* The sampler launched by the latest start() has executed line 33 and the
\* stop() that closes the stage has not yet read the running peak at line 76.
PeakWindow ==
    /\ WindowOpen
    /\ threads # <<>>
    /\ threads[Len(threads)].pc # "l33"

\* C18: from the moment the sampler launched by start() has initialised the
\* running peak until the stop() that closes the stage reads it, the running
\* peak never decreases, whatever the interleaving of the caller and of all the
\* sampler loops alive in that window.
C18_PeakNeverDecreases ==
    [][(PeakWindow /\ PeakWindow') => cpu_memory_used_peak' >= cpu_memory_used_peak]_vars

\* The call in progress or just ended is a stop_and_update_metrics.
Composite == call.name = "stop_and_update_metrics"

\* C19: on an enabled tracker, stop_and_update_metrics(metrics) from a registered
\* call site resolving to s acts on the tracker and on metrics as stop(s)
\* followed by update_metrics(s, metrics): its first step is stop(s)'s lines
\* 63-72, it continues with stop's lines 73-77, and then makes the step of
\* update_metrics(s, metrics) exactly when metrics was supplied and stop(s)
\* returned; without metrics it is stop(s) alone and init_reported is unchanged.
C19_StopAndUpdateIsStopThenUpdate ==
    [][/\ (~skip_memory_metrics /\ CallStep /\ call'.name = "stop_and_update_metrics") =>
          \A c \in DOMAIN stages :
             StopAndUpdateMetrics(c, call'.metrics, obs'.gpu_end, obs'.gpu_max) =>
                /\ StopHead(stages[c], pc', obs'.gpu_end, obs'.gpu_max)
                /\ pc' = IF err' # "none" THEN "idle"
                         ELSE IF Gated(stages[c])
                              THEN (IF call'.metrics THEN "update" ELSE "idle")
                         ELSE "stop_cpu"
                /\ UNCHANGED <<cpu, cur_stage, init_reported, cpu_memory_used_peak,
                               gpu_memory_used_at_start, cpu_memory_used_at_start,
                               threads, metrics>>
       /\ (Composite /\ pc = "stop_cpu" /\ pc' # "stop_cpu") =>
             /\ StopCpu
             /\ pc' = IF err' = "none" /\ call.metrics THEN "update" ELSE "idle"
       /\ (pc = "update" /\ pc' # "update") =>
             /\ Composite /\ call.metrics
             /\ UpdateBody(call.stage)
             /\ UNCHANGED <<attrs, gpu, cpu, cur_stage, peak_monitoring, threads>>
       /\ (Composite /\ ~call.metrics /\ pc # "idle") =>
             /\ init_reported' = init_reported
             /\ metrics' = metrics
             /\ pc' # "update"]_vars

\* C19, its case: a stop_and_update_metrics(metrics) from the call site of the
\* open stage has closed it and reported it together with the init keys.
C19_Witness ==
    /\ ~skip_memory_metrics
    /\ Composite /\ call.metrics
    /\ call.entry = call.stage
    /\ call.stage \in Stages
    /\ CallEnded
    /\ err = "none"
    /\ cur_stage = None
    /\ call.stage \in DOMAIN cpu
    /\ StageKeys(call.stage) \subseteq written
    /\ BeforeInitKeys \subseteq DOMAIN metrics

\* C20: between any two tracker calls on an enabled tracker, after any sequence
\* of start, stop, update_metrics and stop_and_update_metrics calls, the sampling
\* flag is true exactly when a stage is open (cur_stage is set) and false
\* whenever the tracker is idle.
C20_FlagIffStageOpen ==
    (~skip_memory_metrics /\ CallEnded) =>
        (("peak_monitoring" \in attrs /\ peak_monitoring) <=> cur_stage # None)

====
